---- MODULE Spec2Model ----
(***************************************************************************)
(* Model of the retrieval-and-caching core of quiverai-local:              *)
(*   knowledge.py  - the FAISS index on disk and the functions that        *)
(*                   (re)build it, add a source to it, delete a source;    *)
(*   chatbot.py    - the two lru_cache layers and the ask() generator      *)
(*                   with its think-marker classification.                 *)
(* Two specifications share the variables: SpecIndex drives the index      *)
(* functions, SpecAsk / SpecParse drive ask().                             *)
(***************************************************************************)
EXTENDS Integers, Sequences, FiniteSets, TLC

\* ------------------------------------------------------------------ bounds
\* longest content, counted in the chunks the splitter cuts it into
MaxChunks == 1
\* longest LLM token stream in SpecAsk
MaxTokens == 2
\* longest LLM token stream in SpecParse
MaxParseTokens == 6

\* ------------------------------------------------------- program constants
\* Config.CACHE_SIZE (int(os.getenv("CACHE_SIZE", 1024))), configured small
CACHE_SIZE == 2
\* Config.TOP_K (int(os.getenv("TOP_K", 5)))
TOP_K == 5
THINK_START == "<think>"
THINK_END == "</think>"

\* ------------------------------------------------------------ input domains
\* files the uploader can drop into DOCS_PATH (all of an allowed type)
FileNames == {"a.txt", "b.md"}
Urls == {"http://u"}
Texts == {"p"}

RECURSIVE SeqsUpTo(_, _)
SeqsUpTo(S, n) ==
  IF n = 0 THEN {<<>>}
  ELSE LET shorter == SeqsUpTo(S, n - 1)
       IN shorter \cup {Append(s, x) : s \in {t \in shorter : Len(t) = n - 1}, x \in S}

\* a content is represented by the windows the text splitter cuts it into
Contents == SeqsUpTo(Texts, MaxChunks)

VARIABLES
  docs,            \* DOCS_PATH: file name -> content, for the files present
  index,           \* INDEX_PATH: the FAISS store saved on disk
  sources,         \* st.session_state.sources: source id -> KnowledgeSource
  hist,            \* history: the last index call(s), with the index before each
  chroma,          \* CHROMA_COLLECTION, the collection _cached_retrieve queries
  retrieve_cache,  \* lru_cache of _cached_retrieve, least recently used first
  answer_cache,    \* lru_cache of _cached_answer, least recently used first
  pc,              \* where the ask() generator stands
  query,           \* ask: query
  context,         \* ask: context
  full_ans,        \* ask: full_ans
  in_think,        \* ask: in_think
  tokens,          \* tokens the LLM stream has delivered to this ask
  chunks,          \* chunks this ask has yielded
  llm_log,         \* LLM calls this ask has made, in order
  lookup,          \* history: what the answer cache held when this ask looked
  memo,            \* history: key -> last answer returned, keys called since
  prev,            \* history: the previous ask call
  uploader,        \* st.file_uploader: the file it still holds, if any
  sess             \* per session thread: the handler step it stands at

indexVars == <<docs, index, sources, hist, uploader, sess>>
askVars == <<chroma, retrieve_cache, answer_cache, pc, query, context, full_ans,
             in_think, tokens, chunks, llm_log, lookup, memo, prev>>
vars == <<docs, index, sources, hist, chroma, retrieve_cache, answer_cache, pc,
          query, context, full_ans, in_think, tokens, chunks, llm_log, lookup,
          memo, prev, uploader, sess>>

\* -------------------------------------------------------------- knowledge.py
DOCUMENT == "document"
URL == "url"

KnowledgeSource(id, name, type, content) ==
  [id |-> id, name |-> name, type |-> type, content |-> content]

\* source_id = f"file://{os.path.basename(path)}"; content read from the file
load_from_file(name, content) ==
  KnowledgeSource(<<"file://", name>>, name, DOCUMENT, content)

\* id = f"url://{hash(url)}"; content fetched from the page
load_from_url(url, content) ==
  KnowledgeSource(<<"url://", url>>, url, URL, content)

\* RecursiveCharacterTextSplitter.split_text: the windows of the content
split_text(content) == content

\* f"{src.id}::chunk{idx}", idx counted from 0
ChunkId(sid, idx) == [src |-> sid, chunk |-> idx]

\* the (text, metadata, id) triples one source contributes
ChunksOf(src) ==
  { [id       |-> ChunkId(src.id, i - 1),
     text     |-> split_text(src.content)[i],
     metadata |-> [source |-> src.name, type |-> src.type]]
    : i \in 1..Len(split_text(src.content)) }

\* the files save_local writes into INDEX_PATH
SavedFiles == {"index.faiss", "index.pkl"}
NoIndex == [files |-> {}, entries |-> {}]
Saved(entries) == [files |-> SavedFiles, entries |-> entries]

build_vector_store(idx, srcs) ==
  LET triples == UNION {ChunksOf(s) : s \in srcs}
  IN IF triples = {} THEN idx          \* "nothing to index": return
     ELSE Saved(triples)               \* FAISS.from_texts(...).save_local

\* os.walk(DOCS_PATH), one source per file, then build_vector_store
initialize_knowledge(idx, d) ==
  build_vector_store(idx, {load_from_file(n, d[n]) : n \in DOMAIN d})

add_source_to_index(idx, source) ==
  IF "faiss_index.index" \in idx.files
  THEN Saved(idx.entries \cup ChunksOf(source))   \* add_texts, save_local
  ELSE build_vector_store(idx, {source})          \* store is None

delete_source_from_index(idx, d, source_id) ==
  initialize_knowledge(idx, d)

\* an entry's id starts with "<sid>::"
StartsWith(e, sid) == e.id.src = sid
EntriesOf(idx, sid) == {e \in idx.entries : StartsWith(e, sid)}

\* ---------------------------------------------------------------- helpers
Put(f, k, v) == [x \in (DOMAIN f) \cup {k} |-> IF x = k THEN v ELSE f[x]]
Drop(f, k) == [x \in (DOMAIN f) \ {k} |-> f[x]]
EmptyMap == [x \in {} |-> x]

SourceIds == {<<"file://", n>> : n \in FileNames} \cup {<<"url://", u>> : u \in Urls}


\* the calls since the last break: add(X), then remove(X.id), then add(X)
Call(op, id, src, pre) == [op |-> op, id |-> id, src |-> src, pre |-> pre]

AfterAdd(h, source, pre) ==
  IF Len(h) = 2 /\ h[1].src = <<source>>
  THEN Append(h, Call("add", source.id, <<source>>, pre))
  ELSE <<Call("add", source.id, <<source>>, pre)>>

AfterRemove(h, source_id, pre) ==
  IF Len(h) = 1 /\ h[1].op = "add" /\ h[1].id = source_id
  THEN Append(h, Call("remove", source_id, <<>>, pre))
  ELSE <<Call("remove", source_id, <<>>, pre)>>

\* ------------------------------------------------------------- chatbot.py
CONTENT == "content"
START_THINK == "start_think"
THINKING == "thinking"
END_THINK == "end_think"

Chunk(type, content) == [type |-> type, content |-> content]

\* --- functools.lru_cache(maxsize): entries in order of use, oldest first
CacheKeys(c) == {c[i].key : i \in 1..Len(c)}
CacheHas(c, k) == k \in CacheKeys(c)
CacheVal(c, k) == c[CHOOSE i \in 1..Len(c) : c[i].key = k].val
Without(c, k) == SelectSeq(c, LAMBDA e : e.key # k)

\* (a cache that forgets to count a hit as a use)
TouchNot(c, k) == c

\* a hit moves the entry to the most recently used end
Touch(c, k) == Append(Without(c, k), [key |-> k, val |-> CacheVal(c, k)])

\* (a cache that makes room by dropping the entry used last)
StoreDropNewest(c, k, v, maxsize) ==
  IF Len(c) >= maxsize
  THEN Append(SubSeq(c, 1, Len(c) - 1), [key |-> k, val |-> v])
  ELSE Append(c, [key |-> k, val |-> v])

\* a miss stores the result, evicting the oldest entry of a full cache
Store(c, k, v, maxsize) ==
  IF Len(c) >= maxsize THEN Append(Tail(c), [key |-> k, val |-> v])
  ELSE Append(c, [key |-> k, val |-> v])

\* one call of the wrapped function: v is what the function body returns
lru_call(c, k, v, maxsize) ==
  IF CacheHas(c, k)
  THEN [cache |-> Touch(c, k), result |-> CacheVal(c, k), hit |-> TRUE]
  ELSE [cache |-> Store(c, k, v, maxsize), result |-> v, hit |-> FALSE]

\* --- _cached_retrieve body
\* chatbot.py imports CHROMA_COLLECTION from knowledge, where no function
\* defines or writes it: the collection is the object the retriever queries,
\* a state of its own next to the FAISS index on disk
\* CHROMA_COLLECTION.query(n_results=TOP_K): the collection in ranked order
Query(coll, question, k) == SubSeq(coll, 1, IF Len(coll) < k THEN Len(coll) ELSE k)

\* f"[{metadatas[i].get('source','unknown')}] {docs[i]}"
Format(d) == <<"[", d.metadata.source, "] ", d.text>>

\* (a formatter that always produces at least one item)
retrieve_bodyPadded(coll, question) ==
  LET res == Query(coll, question, TOP_K)
  IN IF Len(res) = 0 THEN << <<"[", "unknown", "] ", "">> >>
     ELSE [i \in 1..Len(res) |-> Format(res[i])]

retrieve_body(coll, question) ==
  LET res == Query(coll, question, TOP_K)
  IN [i \in 1..Len(res) |-> Format(res[i])]

\* "\n\n".join(items)
RECURSIVE Join(_)
Join(items) ==
  IF Len(items) = 0 THEN <<>>
  ELSE IF Len(items) = 1 THEN items[1]
  ELSE items[1] \o <<"\n\n">> \o Join(Tail(items))

\* --- ask(): the think-marker loop body, lines 149-160
\* text = str(token.content or "")
NoContent == <<>>
Token(content) == [content |-> content]
TokenText(token) == IF token.content = NoContent THEN "" ELSE token.content[1]

\* (a loop that stays in thinking mode after the end marker)
ClassifyStuck(thinking, text) ==
  IF text = THINK_START
  THEN [in_think |-> TRUE, chunk |-> Chunk(START_THINK, "")]
  ELSE IF text = THINK_END
  THEN [in_think |-> thinking, chunk |-> Chunk(END_THINK, "")]
  ELSE [in_think |-> thinking,
        chunk |-> Chunk(IF thinking THEN THINKING ELSE CONTENT, text)]

Classify(thinking, text) ==
  IF text = THINK_START
  THEN [in_think |-> TRUE, chunk |-> Chunk(START_THINK, "")]
  ELSE IF text = THINK_END
  THEN [in_think |-> FALSE, chunk |-> Chunk(END_THINK, "")]
  ELSE [in_think |-> thinking,
        chunk |-> Chunk(IF thinking THEN THINKING ELSE CONTENT, text)]

\* `if full_ans:` - a non-empty string is true
Truthy(s) == s # ""

\* ------------------------------------------------------------ LLM behaviour
Queries == {"q1", "q2", "q3"}
\* texts llm.generate can return
Answers == {"", "ans1", "ans2"}
EndOfStream == [content |-> <<"#eos">>]
\* the stream raises instead of delivering its next token
StreamError == [content |-> <<"#error">>]
AskTokens == {Token(NoContent), Token(<<"A">>), Token(<<THINK_START>>), Token(<<THINK_END>>)}
ParseTokens == {Token(<<t>>) : t \in {"A", "B", "C", "D", THINK_START, THINK_END}}
Doc(text, source) == [text |-> text, metadata |-> [source |-> source]]
Collections == {<<>>, <<Doc("p", "a.txt")>>}

\* concurrent browser sessions, each run by a script thread of its own
Sessions == {1, 2}
IdleSession == [pc |-> "idle", src |-> <<>>, store |-> {}, scanned |-> {}]

\* --------------------------------------------------------- index operations
IdleAsk ==
  /\ retrieve_cache = <<>>
  /\ answer_cache = <<>>
  /\ pc = "idle"
  /\ query = ""
  /\ context = <<>>
  /\ full_ans = ""
  /\ in_think = FALSE
  /\ tokens = <<>>
  /\ chunks = <<>>
  /\ llm_log = <<>>
  /\ lookup = [looked |-> FALSE, cached |-> FALSE, prior |-> <<>>, others |-> 0,
                rcached |-> FALSE, seen |-> {}, result |-> <<>>]
  /\ memo = EmptyMap
  /\ prev = [query |-> "", completed |-> FALSE, looked |-> FALSE, seen |-> {}]

EmptyIndex ==
  /\ docs = EmptyMap
  /\ index = NoIndex
  /\ sources = EmptyMap
  /\ hist = <<>>
  /\ uploader = <<>>
  /\ sess = [s \in Sessions |-> IdleSession]

InitIndex ==
  /\ EmptyIndex
  /\ chroma = <<>>
  /\ IdleAsk

\* a file is written into DOCS_PATH (app.py: open(save_path, "wb"))
SaveFile(name, content) ==
  /\ docs' = Put(docs, name, content)
  /\ hist' = <<>>
  /\ UNCHANGED <<index, sources, uploader>>
  /\ UNCHANGED <<askVars, sess>>

\* the caller registers the source and calls add_source_to_index(source)
Add(source) ==
  /\ sources' = Put(sources, source.id, source)
  /\ index' = add_source_to_index(index, source)
  /\ hist' = AfterAdd(hist, source, index)
  /\ UNCHANGED <<docs, uploader>>
  /\ UNCHANGED <<askVars, sess>>

AddFile(name) ==
  /\ name \in DOMAIN docs
  /\ Add(load_from_file(name, docs[name]))

AddUrl(url, content) == Add(load_from_url(url, content))

\* the caller calls delete_source_from_index(source_id) and forgets the source
Remove(source_id) ==
  /\ index' = delete_source_from_index(index, docs, source_id)
  /\ sources' = Drop(sources, source_id)
  /\ hist' = AfterRemove(hist, source_id, index)
  /\ UNCHANGED <<docs, uploader>>
  /\ UNCHANGED <<askVars, sess>>

\* "Re-index all documents": initialize_knowledge()
Reindex ==
  /\ index' = initialize_knowledge(index, docs)
  /\ hist' = <<Call("reindex", <<>>, <<>>, index)>>
  /\ UNCHANGED <<docs, sources, uploader>>
  /\ UNCHANGED <<askVars, sess>>

\* the source lists a caller can pass: the files of DOCS_PATH as loaded and
\* pages as fetched, no source twice
Loadable(d) ==
  {load_from_file(n, d[n]) : n \in DOMAIN d}
    \cup {load_from_url(u, c) : u \in Urls, c \in Contents}
SourceLists(d) ==
  {S \in SUBSET Loadable(d) : \A a, b \in S : a.id = b.id => a = b}

\* build_vector_store(sources) called with a list of the caller's choice
Rebuild(srcs) ==
  /\ index' = build_vector_store(index, srcs)
  /\ hist' = <<Call("rebuild", <<>>, <<srcs>>, index)>>
  /\ UNCHANGED <<docs, sources, uploader>>
  /\ UNCHANGED <<askVars, sess>>

NextIndex ==
  \/ \E n \in FileNames, c \in Contents : SaveFile(n, c)
  \/ \E n \in FileNames : AddFile(n)
  \/ \E u \in Urls, c \in Contents : AddUrl(u, c)
  \/ \E sid \in SourceIds : Remove(sid)
  \/ Reindex
  \/ \E srcs \in SourceLists(docs) : Rebuild(srcs)

SpecIndex == InitIndex /\ [][NextIndex]_vars

\* ----------------------------------------------------------- app.py handlers
\* Every interaction runs the script from the top. Lines 20-24:
\* faiss_store = init_faiss(), which rebuilds from DOCS_PATH when there is no
\* index.faiss, then initialize_knowledge() again when INDEX_PATH is empty.
TopDisk(idx, d) ==
  IF "index.faiss" \in idx.files THEN idx
  ELSE LET built == initialize_knowledge(idx, d)
       IN IF built.files = {} THEN initialize_knowledge(built, d) ELSE built

\* source.content.split("\n\n"): the empty string gives one empty piece
split_paragraphs(content) == IF content = <<>> THEN <<"">> ELSE content

\* lines 80-82 / 104-106: chunks, ids, metas for faiss_store.add_texts
ParagraphsOf(src) ==
  { [id       |-> ChunkId(src.id, i - 1),
     text     |-> split_paragraphs(src.content)[i],
     metadata |-> [source |-> src.name, type |-> src.type]]
    : i \in 1..Len(split_paragraphs(src.content)) }

EntryIds(entries) == {e.id : e \in entries}

\* lines 78-88 / 103-113: add_source_to_index(source), then
\* faiss_store.add_texts, which raises on an id the store already holds,
\* then faiss_store.save_local over the index on disk
IndexInto(idx, store, source) ==
  LET added == add_source_to_index(idx, source)
  IN IF EntryIds(store) \cap EntryIds(ParagraphsOf(source)) # {}
     THEN [disk |-> added, ok |-> FALSE]
     ELSE [disk |-> Saved(store \cup ParagraphsOf(source)), ok |-> TRUE]

InitApp ==
  /\ EmptyIndex
  /\ chroma = <<>>
  /\ IdleAsk

\* lines 67-92 in a run that starts from disk state `top`: the held file is
\* saved, loaded, registered and indexed; the uploader is reset on success
UploadBlock(top, name, content) ==
  LET source == load_from_file(name, content)
      r      == IndexInto(top, top.entries, source)
  IN /\ docs' = Put(docs, name, content)
     /\ sources' = Put(sources, source.id, source)
     /\ index' = r.disk
     /\ uploader' = IF r.ok THEN <<>> ELSE <<name>>

\* a file is dropped into the uploader
Upload(name, content) ==
  /\ uploader = <<>>
  /\ UploadBlock(TopDisk(index, docs), name, content)
  /\ hist' = <<>>
  /\ UNCHANGED <<askVars, sess>>

\* any other interaction while the uploader still holds a file: the script
\* reruns and the upload block runs again
RerunHeld ==
  /\ uploader # <<>>
  /\ UploadBlock(TopDisk(index, docs), uploader[1], docs[uploader[1]])
  /\ hist' = <<>>
  /\ UNCHANGED <<askVars, sess>>

\* "Add Web Page" with a valid URL, lines 98-116
AddWebPage(url, content) ==
  /\ uploader = <<>>
  /\ LET top    == TopDisk(index, docs)
         source == load_from_url(url, content)
     IN /\ sources' = Put(sources, source.id, source)
        /\ index' = IndexInto(top, top.entries, source).disk
  /\ hist' = <<>>
  /\ UNCHANGED <<docs, uploader>>
  /\ UNCHANGED <<askVars, sess>>

\* the delete button of a loaded source, lines 131-136, and the rerun
Delete(source_id) ==
  /\ uploader = <<>>
  /\ source_id \in DOMAIN sources
  /\ index' = TopDisk(delete_source_from_index(TopDisk(index, docs), docs, source_id), docs)
  /\ sources' = Drop(sources, source_id)
  /\ hist' = <<>>
  /\ UNCHANGED <<docs, uploader>>
  /\ UNCHANGED <<askVars, sess>>

\* "Re-index all documents", lines 55-57, and the rerun it asks for, in
\* which a file the uploader still holds is uploaded again
ReindexAll ==
  /\ LET top == TopDisk(initialize_knowledge(TopDisk(index, docs), docs), docs)
     IN IF uploader = <<>>
        THEN /\ index' = top
             /\ UNCHANGED <<docs, sources, uploader>>
        ELSE UploadBlock(top, uploader[1], docs[uploader[1]])
  /\ hist' = <<>>
  /\ UNCHANGED <<askVars, sess>>

\* a browser session starts: empty session state, lines 40-45
NewSession ==
  /\ index' = TopDisk(index, docs)
  /\ sources' = EmptyMap
  /\ uploader' = <<>>
  /\ hist' = <<>>
  /\ UNCHANGED docs
  /\ UNCHANGED <<askVars, sess>>

NextApp ==
  \/ \E n \in FileNames, c \in Contents : Upload(n, c)
  \/ RerunHeld
  \/ \E u \in Urls, c \in Contents : AddWebPage(u, c)
  \/ \E sid \in SourceIds : Delete(sid)
  \/ ReindexAll
  \/ NewSession

SpecApp == InitApp /\ [][NextApp]_vars

\* ------------------------------------------------- handlers, step by step
\* The same handlers as two script threads run them: nothing in app.py or
\* knowledge.py takes a lock, so a thread can be suspended between reading
\* and saving. Session state (sources, uploader) is private to a session
\* and is left out here.
InitSessions == InitApp

Step(s, rec) == [sess EXCEPT ![s] = rec]

\* lines 20-24 and 67-78: the script starts, loads faiss_store, saves the
\* uploaded file, and enters add_source_to_index (lines 145-159)
BeginUpload(s, name, content) ==
  /\ sess[s].pc = "idle"
  /\ index' = TopDisk(index, docs)
  /\ docs' = Put(docs, name, content)
  /\ sess' = Step(s, [pc |-> "adding", src |-> <<load_from_file(name, content)>>,
                      store |-> TopDisk(index, docs).entries, scanned |-> {}])
  /\ UNCHANGED <<sources, hist, uploader>>
  /\ UNCHANGED askVars

\* add_source_to_index writes (lines 160-165) and returns
SaveAdd(s) ==
  /\ sess[s].pc = "adding"
  /\ index' = add_source_to_index(index, sess[s].src[1])
  /\ sess' = Step(s, [sess[s] EXCEPT !.pc = "merging"])
  /\ UNCHANGED <<docs, sources, hist, uploader>>
  /\ UNCHANGED askVars

\* lines 80-88: the store loaded at the top gets the new pieces and is
\* saved over the index, unless add_texts raises
SaveMerge(s) ==
  /\ sess[s].pc = "merging"
  /\ index' = IF EntryIds(sess[s].store) \cap EntryIds(ParagraphsOf(sess[s].src[1])) # {}
               THEN index
               ELSE Saved(sess[s].store \cup ParagraphsOf(sess[s].src[1]))
  /\ sess' = Step(s, IdleSession)
  /\ UNCHANGED <<docs, sources, hist, uploader>>
  /\ UNCHANGED askVars

\* the delete button ("removing") or the re-index button ("rebuilding"):
\* initialize_knowledge has walked DOCS_PATH and loaded the files
BeginScan(s, kind) ==
  /\ sess[s].pc = "idle"
  /\ index' = TopDisk(index, docs)
  /\ sess' = Step(s, [pc |-> kind, src |-> <<>>, store |-> {},
                      scanned |-> {load_from_file(n, docs[n]) : n \in DOMAIN docs}])
  /\ UNCHANGED <<docs, sources, hist, uploader>>
  /\ UNCHANGED askVars

\* build_vector_store saves what was loaded; the script reruns from the top
SaveScan(s) ==
  /\ sess[s].pc \in {"removing", "rebuilding"}
  /\ index' = TopDisk(build_vector_store(index, sess[s].scanned), docs)
  /\ sess' = Step(s, IdleSession)
  /\ UNCHANGED <<docs, sources, hist, uploader>>
  /\ UNCHANGED askVars

NextSessions ==
  \/ \E s \in Sessions, n \in FileNames, c \in Contents : BeginUpload(s, n, c)
  \/ \E s \in Sessions : SaveAdd(s)
  \/ \E s \in Sessions : SaveMerge(s)
  \/ \E s \in Sessions, kind \in {"removing", "rebuilding"} : BeginScan(s, kind)
  \/ \E s \in Sessions : SaveScan(s)

SpecSessions == InitSessions /\ [][NextSessions]_vars

\* ----------------------------------------------------------- ask operations
InitAsk ==
  /\ EmptyIndex
  /\ chroma \in Collections
  /\ IdleAsk

InitParse ==
  /\ EmptyIndex
  /\ chroma = <<>>
  /\ IdleAsk

AnswerKey(q, ctx) == <<q, ctx>>

\* history: the answer returned for key k, and no other key called since;
\* every other key remembers that k was called
Recorded(m, k, v) ==
  [j \in (DOMAIN m) \cup {k} |->
     IF j = k THEN [val |-> v, others |-> {}]
     ELSE [val |-> m[j].val, others |-> m[j].others \cup {k}]]

\* ask(query, ...) is called: a generator object, its body not yet started
CallAsk(q) ==
  /\ pc \in {"idle", "done", "closed", "failed"}
  /\ pc' = "created"
  /\ query' = q
  /\ context' = <<>>
  /\ full_ans' = ""
  /\ in_think' = FALSE
  /\ tokens' = <<>>
  /\ chunks' = <<>>
  /\ llm_log' = <<>>
  /\ lookup' = [looked |-> FALSE, cached |-> FALSE, prior |-> <<>>, others |-> 0,
                rcached |-> FALSE, seen |-> {}, result |-> <<>>]
  /\ prev' = IF pc = "idle" THEN prev
             ELSE [query |-> query, completed |-> pc = "done",
                   looked |-> lookup.looked, seen |-> lookup.seen]
  /\ UNCHANGED <<chroma, retrieve_cache, answer_cache, memo>>
  /\ UNCHANGED indexVars

\* lines 136-137: context = "\n\n".join(_cached_retrieve(query));
\* full_ans = _cached_answer(query, context), whose body calls llm.generate
Lookup(ans) ==
  LET r   == lru_call(retrieve_cache, query, retrieve_body(chroma, query), CACHE_SIZE)
      ctx == Join(r.result)
      a   == lru_call(answer_cache, AnswerKey(query, ctx), ans, CACHE_SIZE)
  IN [rcache |-> r.cache, context |-> ctx, acache |-> a.cache,
      full_ans |-> a.result,
      log |-> IF a.hit THEN <<>> ELSE <<"generate">>]

Looked(l) ==
  LET k == AnswerKey(query, l.context)
  IN /\ context' = l.context
     /\ full_ans' = l.full_ans
     /\ lookup' = [looked |-> TRUE,
                   cached |-> CacheHas(answer_cache, k),
                   prior  |-> IF k \in DOMAIN memo THEN <<memo[k].val>> ELSE <<>>,
                   others |-> IF k \in DOMAIN memo THEN Cardinality(memo[k].others) ELSE 0,
                   rcached |-> CacheHas(retrieve_cache, query),
                   seen |-> index.entries,
                   result |-> CacheVal(l.rcache, query)]
     /\ memo' = Recorded(memo, k, l.full_ans)

\* the loop at line 148 asks the stream for its next token: either a token,
\* classified and yielded, or the end of the stream, after which line 163
\* calls _cached_answer(query, context) again and the generator finishes
\* (an ask that swallows the error and ends as if the stream were complete)
OnStreamErrorSwallowed(log) == [pc |-> "done", log |-> Append(log, "error")]

\* nothing catches an exception of the stream iterator at line 148: it
\* leaves the generator, which is finished from then on
OnStreamError(log) == [pc |-> "failed", log |-> Append(log, "error")]

Fetch(rcache, acache, ctx, log, thinking, item, ans, limit) ==
  IF item = StreamError
  THEN /\ pc' = OnStreamError(log).pc
       /\ llm_log' = OnStreamError(log).log
       /\ answer_cache' = acache
       /\ retrieve_cache' = rcache
       /\ in_think' = thinking
       /\ UNCHANGED <<tokens, chunks>>
  ELSE IF item = EndOfStream
  THEN LET a == lru_call(acache, AnswerKey(query, ctx), ans, CACHE_SIZE)
       IN /\ pc' = "done"
          /\ answer_cache' = a.cache
          /\ retrieve_cache' = rcache
          /\ llm_log' = IF a.hit THEN log ELSE Append(log, "generate")
          /\ in_think' = thinking
          /\ UNCHANGED <<tokens, chunks>>
  ELSE LET c == Classify(thinking, TokenText(item))
       IN /\ Len(tokens) < limit
          /\ pc' = "stream_yield"
          /\ tokens' = Append(tokens, item)
          /\ chunks' = Append(chunks, c.chunk)
          /\ in_think' = c.in_think
          /\ answer_cache' = acache
          /\ retrieve_cache' = rcache
          /\ llm_log' = log

\* first next(): the answer is non-empty, line 139 yields it
FirstCached(ans) ==
  /\ pc = "created"
  /\ LET l == Lookup(ans)
     IN /\ Truthy(l.full_ans)
        /\ Looked(l)
        /\ retrieve_cache' = l.rcache
        /\ answer_cache' = l.acache
        /\ llm_log' = l.log
        /\ chunks' = <<Chunk(CONTENT, l.full_ans)>>
        /\ pc' = "cached_yield"
  /\ UNCHANGED <<chroma, query, in_think, tokens, prev>>
  /\ UNCHANGED indexVars

\* first next(): the answer is empty, lines 143-148 build the prompt
\* (_create_prompt calls _cached_retrieve(query) again) and open the stream
FirstStream(ans, item, limit) ==
  /\ pc = "created"
  /\ LET l == Lookup(ans)
         r == lru_call(l.rcache, query, retrieve_body(chroma, query), CACHE_SIZE)
     IN /\ ~Truthy(l.full_ans)
        /\ Looked(l)
        /\ Fetch(r.cache, l.acache, l.context, Append(l.log, "stream"),
                 FALSE, item, ans, limit)
  /\ UNCHANGED <<chroma, query, prev>>
  /\ UNCHANGED indexVars

\* next() after the cached answer was yielded: line 140 returns
Return ==
  /\ pc = "cached_yield"
  /\ pc' = "done"
  /\ UNCHANGED <<chroma, retrieve_cache, answer_cache, query, context, full_ans,
                 in_think, tokens, chunks, llm_log, lookup, memo, prev>>
  /\ UNCHANGED indexVars

\* next() after a streamed chunk was yielded: the loop continues
Resume(item, ans, limit) ==
  /\ pc = "stream_yield"
  /\ Fetch(retrieve_cache, answer_cache, context, llm_log, in_think, item, ans, limit)
  /\ UNCHANGED <<chroma, query, context, full_ans, lookup, memo, prev>>
  /\ UNCHANGED indexVars

\* (a generator that, when dropped, still runs the step after the loop)
AbandonDrained ==
  /\ pc \in {"created", "cached_yield", "stream_yield"}
  /\ pc' = "closed"
  /\ llm_log' = IF pc = "stream_yield" THEN Append(llm_log, "generate") ELSE llm_log
  /\ UNCHANGED <<chroma, retrieve_cache, answer_cache, query, context, full_ans,
                 in_think, tokens, chunks, lookup, memo, prev>>
  /\ UNCHANGED indexVars

\* the caller drops the generator before it is exhausted
Abandon ==
  /\ pc \in {"created", "cached_yield", "stream_yield"}
  /\ pc' = "closed"
  /\ UNCHANGED <<chroma, retrieve_cache, answer_cache, query, context, full_ans,
                 in_think, tokens, chunks, llm_log, lookup, memo, prev>>
  /\ UNCHANGED indexVars

NextAskOver(qs, toks, limit) ==
  \/ \E q \in qs : CallAsk(q)
  \/ \E ans \in Answers : FirstCached(ans)
  \/ \E ans \in Answers, item \in toks \cup {EndOfStream} : FirstStream(ans, item, limit)
  \/ Return
  \/ \E ans \in Answers, item \in toks \cup {EndOfStream} : Resume(item, ans, limit)
  \/ Abandon

NextAsk == NextAskOver(Queries, AskTokens \cup {StreamError}, MaxTokens)
NextParse == NextAskOver({"q1"}, ParseTokens, MaxParseTokens)

SpecAsk == InitAsk /\ [][NextAsk]_vars
SpecParse == InitParse /\ [][NextParse]_vars

\* -------------------------------------------- index calls and asks together
\* One process holds both modules: the Index Manager calls of knowledge.py
\* and ask of chatbot.py, in any order, an ask's generator staying suspended
\* while the index is changed. Nothing in knowledge.py writes the collection
\* _cached_retrieve queries, and nothing clears the two caches.
\* One document with one chunk, one query and one token are enough here.
RagFiles == FileNames
RagContents == {<<"p">>}
RagQueries == {"q1"}
RagTokens == {Token(<<"A">>)}
RagMaxTokens == 1

InitRag == InitApp

NextRag ==
  \/ \E n \in RagFiles, c \in RagContents : SaveFile(n, c)
  \/ \E n \in RagFiles : AddFile(n)
  \/ \E n \in RagFiles : Remove(<<"file://", n>>)
  \/ \E n \in RagFiles, c \in RagContents : Rebuild({load_from_file(n, c)})
  \/ NextAskOver(RagQueries, RagTokens, RagMaxTokens)

SpecRag == InitRag /\ [][NextRag]_vars

\* ------------------------------------------------------------ index claims
LastCall == hist[Len(hist)]
JustRemoved == Len(hist) > 0 /\ LastCall.op = "remove"
JustAdded == Len(hist) > 0 /\ LastCall.op = "add"

\* C1: after remove(sourceId) returns, the index holds no entry whose id
\* starts with "<sourceId>::", also when the source's file is still in docs.
C1_RemoveDeletesEntries ==
  JustRemoved => EntriesOf(index, LastCall.id) = {}

\* C2: remove(sourceId) leaves the entries of every other registered source
\* as they were, those of a source added only by URL included.
C2_RemoveKeepsOthers ==
  JustRemoved =>
    \A sid \in DOMAIN sources :
      sid # LastCall.id => EntriesOf(index, sid) = EntriesOf(LastCall.pre, sid)

\* C3: add(source) keeps every entry the persisted index held before the
\* call, and rebuilds from [source] alone only when no index existed.
C3_AddKeepsEntries ==
  JustAdded =>
    /\ LastCall.pre.entries \subseteq index.entries
    /\ LastCall.pre.files # {} =>
         index.entries = LastCall.pre.entries \cup ChunksOf(LastCall.src[1])

\* C9: add(X) followed by remove(X.id) leaves the entry set the index had
\* before the add.
C9_AddRemoveRestores ==
  (Len(hist) = 2 /\ hist[1].op = "add" /\ hist[2].op = "remove")
    => index.entries = hist[1].pre.entries

\* C10: add(X); remove(X.id); add(X) leaves the entry set a single add(X)
\* leaves from the same starting index.
C10_AddRemoveAddAsOneAdd ==
  Len(hist) = 3
    => index.entries = add_source_to_index(hist[1].pre, hist[1].src[1]).entries

\* C11: after rebuild(sources) with a non-empty list the index holds exactly
\* the chunk entries of those sources, no prior entry survives, also when
\* the sources yield no chunks.
C11_RebuildWipes ==
  (Len(hist) > 0 /\ LastCall.op = "rebuild" /\ LastCall.src[1] # {})
    => index.entries = UNION {ChunksOf(src) : src \in LastCall.src[1]}

\* C13: remove(sourceId) for an id that has no entry in the index leaves
\* the entry set of the index as it was.
C13_RemoveAbsentIsNoOp ==
  (JustRemoved /\ EntriesOf(LastCall.pre, LastCall.id) = {})
    => index.entries = LastCall.pre.entries

\* C12: over startup, upload, add-URL, delete and re-index, every entry of
\* the index has the id of a source registered in the source mapping before
\* its "::chunk".
C12_EntriesOfKnownSources ==
  \A e \in index.entries : e.id.src \in DOMAIN sources

\* C14: across sessions no two of add, remove and rebuild are in progress
\* on the index at the same time.
Writers == {s \in Sessions : sess[s].pc \in {"adding", "removing", "rebuilding"}}
C14_OneWriter == Cardinality(Writers) <= 1

\* -------------------------------------------------------------- ask claims
Started == lookup.looked
Streamed == \E i \in 1..Len(llm_log) : llm_log[i] = "stream"
Generated == \E i \in 1..Len(llm_log) : llm_log[i] = "generate"
ChunkTypes == {chunks[i].type : i \in 1..Len(chunks)}

\* C4: when ask is called again with the query of the ask just consumed to
\* completion, the collection unchanged, it is served from the answer cache:
\* no StartThink or Thinking chunk and no token stream.
C4_SecondAskFromCache ==
  (Started /\ prev.completed /\ prev.query = query)
    => /\ ~Streamed
       /\ ChunkTypes \cap {START_THINK, THINKING} = {}

\* C5: when the answer cache holds no entry for (query, context), ask opens a
\* token stream and does not call the blocking generate before it.
C5_MissStreams ==
  (Started /\ ~lookup.cached)
    => /\ llm_log # <<>>
       /\ llm_log[1] = "stream"

\* C6: when the answer cache holds an entry for (query, context), whatever
\* its text, ask emits exactly one Content chunk with the cached text and
\* terminates without calling the LLM.
C6_HitEmitsCachedText ==
  (Started /\ lookup.cached)
    => /\ chunks = <<Chunk(CONTENT, full_ans)>>
       /\ llm_log = <<>>
       /\ pc \in {"cached_yield", "done", "closed"}

\* the think-marker machine as the specification states it
TokenTexts == [i \in 1..Len(tokens) |-> TokenText(tokens[i])]

RECURSIVE Alternates(_, _)
Alternates(texts, expect) ==
  IF texts = <<>> THEN TRUE
  ELSE IF Head(texts) \in {THINK_START, THINK_END}
  THEN /\ Head(texts) = expect
       /\ Alternates(Tail(texts), IF expect = THINK_START THEN THINK_END ELSE THINK_START)
  ELSE Alternates(Tail(texts), expect)

RECURSIVE Expected(_, _)
Expected(texts, state) ==
  IF texts = <<>> THEN <<>>
  ELSE IF state = "Normal" /\ Head(texts) = THINK_START
  THEN <<Chunk(START_THINK, "")>> \o Expected(Tail(texts), "InThink")
  ELSE IF state = "InThink" /\ Head(texts) = THINK_END
  THEN <<Chunk(END_THINK, "")>> \o Expected(Tail(texts), "Normal")
  ELSE <<Chunk(IF state = "Normal" THEN CONTENT ELSE THINKING, Head(texts))>>
         \o Expected(Tail(texts), state)

\* C7: on the streaming path, for a token sequence whose markers alternate
\* beginning with a start marker, the chunks emitted so far are one per
\* token, in arrival order, classified from state Normal, and nothing is
\* added when the stream ends.
C7_StreamChunks ==
  (Streamed /\ Alternates(TokenTexts, THINK_START))
    => chunks = Expected(TokenTexts, "Normal")

C7_Witness ==
  /\ pc = "done"
  /\ Streamed
  /\ TokenTexts = <<"A", THINK_START, "B", "C", THINK_END, "D">>
  /\ chunks = <<Chunk(CONTENT, "A"), Chunk(START_THINK, ""), Chunk(THINKING, "B"),
                Chunk(THINKING, "C"), Chunk(END_THINK, ""), Chunk(CONTENT, "D")>>

\* C8 as stated: once the answer for (q, c) has been computed, a later call
\* with (q, c), after any calls with other keys, does not call the LLM again
\* and returns the same value.
C8_NeverRecomputed ==
  (Started /\ lookup.prior # <<>>)
    => /\ ~Generated
       /\ full_ans = lookup.prior[1]

\* C8 amended: ... after calls with fewer than CACHE_SIZE distinct other
\* keys since the last call with (q, c) ...
C8_NotRecomputedWhileRecent ==
  (Started /\ lookup.prior # <<>> /\ lookup.others < CACHE_SIZE)
    => /\ ~Generated
       /\ full_ans = lookup.prior[1]

C8_Witness ==
  /\ Started
  /\ lookup.prior # <<>>
  /\ lookup.others > 0
  /\ lookup.others < CACHE_SIZE
  /\ ~Generated
  /\ full_ans = lookup.prior[1]


\* C15: when the stream fails after n tokens the caller has the n chunks
\* classified from them, ask has ended with the error, and the stream was
\* opened once: nothing is fetched or emitted again.
RECURSIVE Classified(_, _)
Classified(texts, thinking) ==
  IF texts = <<>> THEN <<>>
  ELSE <<Classify(thinking, Head(texts)).chunk>>
         \o Classified(Tail(texts), Classify(thinking, Head(texts)).in_think)

Errored == \E i \in 1..Len(llm_log) : llm_log[i] = "error"
StreamOpens == Cardinality({i \in 1..Len(llm_log) : llm_log[i] = "stream"})

C15_StreamFailure ==
  Errored =>
    /\ pc = "failed"
    /\ chunks = Classified(TokenTexts, FALSE)
    /\ StreamOpens = 1
    /\ llm_log[Len(llm_log)] = "error"

C15_Witness ==
  /\ pc = "failed"
  /\ Errored
  /\ Len(tokens) >= 1
  /\ Len(chunks) = Len(tokens)

\* C16: both caches hold at most CACHE_SIZE entries; an entry leaves a cache
\* only when a new key is stored into the full cache, and it is then the one
\* used least recently, a hit counting as a use; a stored value never changes.
Bounded ==
  /\ Len(retrieve_cache) <= CACHE_SIZE
  /\ Len(answer_cache) <= CACHE_SIZE

\* the keys called since the entry's key was last called
SinceAnswer(e) == memo[e.key].others
SinceRetrieve(e) == memo[AnswerKey(e.key, Join(e.val))].others

EvictsOldest(c, c2, Since(_)) ==
  \A i \in 1..Len(c) :
    c[i].key \notin CacheKeys(c2) =>
      /\ Len(c) = CACHE_SIZE
      /\ CacheKeys(c2) \ CacheKeys(c) # {}
      /\ \A j \in 1..Len(c) :
           j # i => (Since(c[j]) \subseteq Since(c[i]) /\ Since(c[j]) # Since(c[i]))

ValuesKept(c, c2) ==
  \A i \in 1..Len(c), j \in 1..Len(c2) : c[i].key = c2[j].key => c[i].val = c2[j].val

C16_CachesBoundedLRU ==
  /\ []Bounded
  /\ [][/\ EvictsOldest(answer_cache, answer_cache', SinceAnswer)
        /\ EvictsOldest(retrieve_cache, retrieve_cache', SinceRetrieve)
        /\ ValuesKept(answer_cache, answer_cache')
        /\ ValuesKept(retrieve_cache, retrieve_cache')]_vars

C16_Witness ==
  /\ Len(answer_cache) = CACHE_SIZE
  /\ Len(retrieve_cache) = CACHE_SIZE
  /\ \E k \in DOMAIN memo : ~CacheHas(answer_cache, k)

MarkerTrace ==
  [i \in 1..Len(chunks) |->
     IF chunks[i].type = START_THINK THEN THINK_START
     ELSE IF chunks[i].type = END_THINK THEN THINK_END
     ELSE "text"]

C18_MarkersOnlyInState ==
  Streamed =>
    /\ chunks = Expected(TokenTexts, "Normal")
    /\ Alternates(MarkerTrace, THINK_START)

\* what retrieve returns when it reads the entries: up to TOP_K of them,
\* each formatted "[<source-name>] <chunk text>"
ItemsOf(entries) == {Format(e) : e \in entries}
Reflects(result, entries) ==
  /\ \A i \in 1..Len(result) : result[i] \in ItemsOf(entries)
  /\ Len(result) = IF Cardinality(entries) < TOP_K THEN Cardinality(entries) ELSE TOP_K

\* C19: when the index was changed since the last ask of this query, what
\* retrieve now returns for the query reflects the index as it is now: its
\* items are formatted chunks of the present entries, none of a removed source.
C19_RetrieveTracksIndex ==
  ( /\ Started
    /\ lookup.rcached
    /\ prev.looked
    /\ prev.query = query
    /\ prev.seen # lookup.seen )
    => Reflects(lookup.result, lookup.seen)

\* C20: when the index holds the chunks of one document only, retrieve for
\* a query not yet cached returns a non-empty sequence of that document's
\* chunks, each formatted "[<source-name>] <chunk text>".
OneDocument(entries) ==
  /\ entries # {}
  /\ \E sid \in SourceIds : \A e \in entries : e.id.src = sid

C20_RetrieverReadsIndex ==
  ( /\ Started
    /\ ~lookup.rcached
    /\ OneDocument(lookup.seen) )
    => /\ lookup.result # <<>>
       /\ \A i \in 1..Len(lookup.result) : lookup.result[i] \in ItemsOf(lookup.seen)

\* C21: ask is pull-driven: a token is fetched only in a step in which the
\* caller asks for the next chunk, one token for one chunk, so token n+1 is
\* fetched only once n chunks were handed over and another was asked for;
\* when the caller abandons the sequence nothing more is fetched or emitted,
\* the LLM is not called again and the caches stay as they are, until the
\* next ask.
FetchesOnPull ==
  (tokens' # tokens /\ tokens' # <<>>)
    => /\ pc \in {"created", "stream_yield"}
       /\ pc' = "stream_yield"
       /\ Len(chunks) = Len(tokens)
       /\ Len(tokens') = Len(tokens) + 1
       /\ SubSeq(tokens', 1, Len(tokens)) = tokens
       /\ Len(chunks') = Len(tokens')

QuietOnAbandon ==
  (pc' = "closed" /\ pc # "closed")
    => UNCHANGED <<tokens, chunks, llm_log, answer_cache, retrieve_cache>>

QuietOnceAbandoned ==
  pc = "closed"
    => \/ pc' = "created"
       \/ UNCHANGED <<pc, tokens, chunks, llm_log, answer_cache, retrieve_cache>>

C21_PullDriven == [][FetchesOnPull /\ QuietOnAbandon /\ QuietOnceAbandoned]_vars

C21_Witness ==
  /\ pc = "closed"
  /\ Len(tokens) >= 1
  /\ Len(chunks) = Len(tokens)
  /\ llm_log[Len(llm_log)] = "stream"
====
